---- MODULE Spec2Model ----
(***************************************************************************)
(* TwoQueueCache (common/cache/twoQueue/twoQueue.go): a 2Q cache built     *)
(* from three bounded recency-ordered stores, recent, frequent and         *)
(* recentEvict (the ghost store).  Every public operation runs under the   *)
(* cache's exclusive lock and is one action here.                          *)
(*                                                                         *)
(* A store is a sequence of entries, oldest (least recently touched)       *)
(* first.  The store type itself (common/cache/lru) is modelled from the   *)
(* contract the cache requires of it.                                      *)
(***************************************************************************)
EXTENDS Integers, Sequences, FiniteSets, TLC

\* ---------------------------------------------------------------- bounds
MaxSize == 2
NumKeys == 3
NumVals == 2
MaxTime == 1
NumThreads == 2

Keys == 1..NumKeys
Vals == 1..NumVals
Times == 1..MaxTime
Threads == 1..NumThreads

\* ------------------------------------------------------- program constants
\* ratios are exact fractions <<numerator, denominator>>
Default2QRecentRatio == <<1, 4>>
Default2QGhostEntries == <<1, 2>>

\* TestTwoQCache: size := 4, the five entries "1".."5" and the key "6"
TestSize == 4
NumEntries == 5
TestKeys == 1..(NumEntries + 1)
\* the value stored with a test key ("one" .. "six"), named by its number
TestValue(k) == k

\* constructor arguments explored: sizes and ratios, accepted and rejected
SizeArgs == 0..MaxSize
RatioArgs == {<<-1, 4>>, <<0, 1>>, <<1, 2>>, <<1, 1>>, <<5, 4>>}
\* the value of the calls that all store the same value
AnyVal == CHOOSE v \in Vals : \A w \in Vals : v <= w

\* lo.Empty[V](): the zero value returned on a miss
Empty == 0
\* struct{}{}: the value of a ghost entry
Unit == 0
\* an entry stored by the plain Set carries no expiry
NoExpire == 0
\* the zero key: the key of a call that takes none, the victim of no eviction
NoKey == 0
\* the zero value of sync.RWMutex: no thread holds the lock
Free == 0
\* the public operations, each of which takes the lock
Ops == {"Get", "Set", "SetWithExpire", "Delete", "Clear"}

VARIABLES
    args,         \* the constructor's arguments <<size, recentRatio, ghostRatio>>
    inst,         \* "ok": New2QParams returned a cache; "nil": it returned nil
    size,         \* TwoQueueCache.size
    recentSize,   \* TwoQueueCache.recentSize
    evictSize,    \* the capacity given to recentEvict
    recent,       \* TwoQueueCache.recent
    frequent,     \* TwoQueueCache.frequent
    recentEvict,  \* TwoQueueCache.recentEvict
    now,          \* the clock, in seconds
    failed,       \* a call panicked
    expiring,     \* SetWithExpire has been called
    last,         \* the last call: operation, key, branch taken, eviction, and
                  \* the value returned (Get) or written (Set, SetWithExpire)
    script,       \* how many calls of TestTwoQCache the history matches
    mu,           \* TwoQueueCache.mu: the thread holding the lock, or Free
    pc            \* each caller thread's position and the operation it is in

\* the cache and the history of its calls
cachevars == <<args, inst, size, recentSize, evictSize, recent, frequent,
               recentEvict, now, failed, expiring, last, script>>

vars == <<cachevars, mu, pc>>

\* ------------------------------------------------- the bounded ordered store
Entry(k, v, e) == [key |-> k, value |-> v, expires |-> e]

\* the key is stored, expired or not
Has(c, k) == \E i \in 1..Len(c) : c[i].key = k

At(c, k) == c[CHOOSE i \in 1..Len(c) : c[i].key = k]

Remove(c, k) == SelectSeq(c, LAMBDA e : e.key # k)

Expired(e, t) == e.expires # NoExpire /\ e.expires <= t

LruLen(c) == Len(c)

\* an expired entry is treated as absent
LruExist(c, k, t) == Has(c, k) /\ ~Expired(At(c, k), t)

\* Peek: no recency update
LruPeek(c, k, t) ==
    IF LruExist(c, k, t) THEN [ok |-> TRUE, val |-> At(c, k).value]
    ELSE [ok |-> FALSE, val |-> Empty]

\* Get: a hit moves the entry to the most-recent end
LruGet(c, k, t) ==
    IF LruExist(c, k, t)
    THEN [ok |-> TRUE, val |-> At(c, k).value,
          cache |-> Append(Remove(c, k), At(c, k))]
    ELSE [ok |-> FALSE, val |-> Empty, cache |-> c]

\* SetWithExpire: update in place and touch, or append and enforce capacity
LruSetWithExpire(c, cap, k, v, e) ==
    IF Has(c, k) THEN Append(Remove(c, k), Entry(k, v, e))
    ELSE LET n == Append(c, Entry(k, v, e))
         IN  IF Len(n) > cap THEN Tail(n) ELSE n

LruSet(c, cap, k, v) == LruSetWithExpire(c, cap, k, v, NoExpire)

LruDelete(c, k) == Remove(c, k)

\* DeleteOldest on a non-empty store
LruDeleteOldest(c) == [key |-> Head(c).key, cache |-> Tail(c)]

LruClear(c) == <<>>

\* ------------------------------------------------------------- construction
Floor(n, ratio) == (n * ratio[1]) \div ratio[2]

\* a ratio check with no upper limit
ValidRatioUnbounded(ratio) == ~(ratio[1] < 0)

ValidRatio(ratio) == ~(ratio[1] < 0) /\ ~(ratio[1] > ratio[2])

New2QParams(s, recentRatio, ghostRatio) ==
    IF s <= 0 \/ ~ValidRatio(recentRatio) \/ ~ValidRatio(ghostRatio)
    THEN [inst |-> "nil", size |-> 0, recentSize |-> 0, evictSize |-> 0]
    ELSE [inst |-> "ok", size |-> s,
          recentSize |-> Floor(s, recentRatio),
          evictSize |-> Floor(s, ghostRatio)]

New(s) == New2QParams(s, Default2QRecentRatio, Default2QGhostEntries)

\* ---------------------------------------------------------- TestTwoQCache
Call(op, k, v) == [op |-> op, key |-> k, value |-> v]

TestScript ==
    [i \in 1..NumEntries |-> Call("Set", i, TestValue(i))]
    \o << Call("Get", 1, Empty), Call("Get", 2, Empty), Call("Get", 2, Empty),
          Call("Get", 5, Empty),
          Call("Set", 6, TestValue(6)),
          Call("Get", 3, Empty),
          Call("Get", 2, Empty) >>
    \o [i \in 1..(2 * NumEntries) |->
          IF i % 2 = 1 THEN Call("Delete", (i + 1) \div 2, Empty)
          ELSE Call("Get", i \div 2, Empty)]

OffScript == -1

\* the history is still a prefix of the test when the call is its next one
Follow(c) ==
    IF script # OffScript /\ script < Len(TestScript) /\ TestScript[script + 1] = c
    THEN script + 1 ELSE OffScript

Last(op, k, path, evict, victim, found, val) ==
    [op |-> op, key |-> k, path |-> path, evict |-> evict, victim |-> victim,
     found |-> found, val |-> val]

\* a thread that is in no call
At0 == [at |-> "idle", op |-> "none"]

Construct(s, rr, gr) ==
    LET c == New2QParams(s, rr, gr)
    IN  /\ args = <<s, rr, gr>>
        /\ inst = c.inst
        /\ size = c.size
        /\ recentSize = c.recentSize
        /\ evictSize = c.evictSize
        /\ recent = <<>>
        /\ frequent = <<>>
        /\ recentEvict = <<>>
        /\ now = 0
        /\ failed = FALSE
        /\ expiring = FALSE
        /\ last = Last("New", NoKey, "none", "none", NoKey, FALSE, Empty)
        /\ script = IF s = TestSize /\ rr = Default2QRecentRatio
                       /\ gr = Default2QGhostEntries THEN 0 ELSE OffScript
        /\ mu = Free
        /\ pc = [t \in Threads |-> At0]

Init == \E s \in SizeArgs, rr \in RatioArgs, gr \in RatioArgs : Construct(s, rr, gr)

Usable == inst = "ok" /\ ~failed

config == <<args, inst, size, recentSize, evictSize>>

\* --------------------------------------------------------------------- Get
\* Get that reads recent without the expiry check
GetStale(key) ==
    /\ Usable
    /\ LET f == LruGet(frequent, key, now)
       IN  IF f.ok
           THEN /\ frequent' = f.cache
                /\ recent' = recent
                /\ last' = Last("Get", key, "frequent", "none", NoKey, TRUE, f.val)
           ELSE IF Has(recent, key)
           THEN /\ recent' = LruDelete(recent, key)
                /\ frequent' = LruSet(frequent, size, key, At(recent, key).value)
                /\ last' = Last("Get", key, "recent", "none", NoKey, TRUE,
                                At(recent, key).value)
           ELSE /\ recent' = recent
                /\ frequent' = frequent
                /\ last' = Last("Get", key, "miss", "none", NoKey, FALSE, Empty)
    /\ script' = Follow(Call("Get", key, Empty))
    /\ UNCHANGED <<config, recentEvict, now, failed, expiring>>

\* Get that remembers a missed key in recentEvict
GetRememberMiss(key) ==
    /\ Usable
    /\ LET f == LruGet(frequent, key, now)
           r == LruPeek(recent, key, now)
       IN  IF f.ok
           THEN /\ frequent' = f.cache
                /\ recent' = recent
                /\ recentEvict' = recentEvict
                /\ last' = Last("Get", key, "frequent", "none", NoKey, TRUE, f.val)
           ELSE IF r.ok
           THEN /\ recent' = LruDelete(recent, key)
                /\ frequent' = LruSet(frequent, size, key, r.val)
                /\ recentEvict' = recentEvict
                /\ last' = Last("Get", key, "recent", "none", NoKey, TRUE, r.val)
           ELSE /\ recent' = recent
                /\ frequent' = frequent
                /\ recentEvict' = LruSet(recentEvict, evictSize, key, Unit)
                /\ last' = Last("Get", key, "miss", "none", NoKey, FALSE, Empty)
    /\ script' = Follow(Call("Get", key, Empty))
    /\ UNCHANGED <<config, now, failed, expiring>>

\* Get whose promotion leaves the key in recent
GetKeepRecent(key) ==
    /\ Usable
    /\ LET f == LruGet(frequent, key, now)
           r == LruPeek(recent, key, now)
       IN  IF f.ok
           THEN /\ frequent' = f.cache
                /\ recent' = recent
                /\ last' = Last("Get", key, "frequent", "none", NoKey, TRUE, f.val)
           ELSE IF r.ok
           THEN /\ recent' = recent
                /\ frequent' = LruSet(frequent, size, key, r.val)
                /\ last' = Last("Get", key, "recent", "none", NoKey, TRUE, r.val)
           ELSE /\ recent' = recent
                /\ frequent' = frequent
                /\ last' = Last("Get", key, "miss", "none", NoKey, FALSE, Empty)
    /\ script' = Follow(Call("Get", key, Empty))
    /\ UNCHANGED <<config, recentEvict, now, failed, expiring>>

Get(key) ==
    /\ Usable
    /\ LET f == LruGet(frequent, key, now)
           r == LruPeek(recent, key, now)
       IN  IF f.ok
           THEN /\ frequent' = f.cache
                /\ recent' = recent
                /\ last' = Last("Get", key, "frequent", "none", NoKey, TRUE, f.val)
           ELSE IF r.ok
           THEN /\ recent' = LruDelete(recent, key)
                /\ frequent' = LruSet(frequent, size, key, r.val)
                /\ last' = Last("Get", key, "recent", "none", NoKey, TRUE, r.val)
           ELSE /\ recent' = recent
                /\ frequent' = frequent
                /\ last' = Last("Get", key, "miss", "none", NoKey, FALSE, Empty)
    /\ script' = Follow(Call("Get", key, Empty))
    /\ UNCHANGED <<config, recentEvict, now, failed, expiring>>

\* ------------------------------------------------------------- ensureSpace
\* The result of ensureSpace on the stores r, f, g.  DeleteOldest on an empty
\* frequent store has no defined outcome: onEmpty chooses between the call
\* panicking and the call doing nothing.
\* a space check that passes on a full cache
HasSpaceWhenFull(recentLen, freqLen) == recentLen + freqLen <= size

HasSpace(recentLen, freqLen) == recentLen + freqLen < size

\* an eviction condition that misses a recent buffer above its target
EvictOnlyAtTarget(recentLen, reentry) ==
    recentLen > 0 /\ (recentLen = recentSize /\ ~reentry)

\* the recent buffer is larger than the target: evict from there
EvictFromRecent(recentLen, reentry) ==
    recentLen > 0 /\ (recentLen > recentSize \/ (recentLen = recentSize /\ ~reentry))

ensureSpace(r, f, g, reentry, onEmpty) ==
    LET recentLen == LruLen(r)
        freqLen == LruLen(f)
        base == [recent |-> r, frequent |-> f, recentEvict |-> g,
                 panic |-> FALSE, evicted |-> "none", victim |-> NoKey]
    IN  IF HasSpace(recentLen, freqLen) THEN base
        ELSE IF EvictFromRecent(recentLen, reentry)
        THEN LET d == LruDeleteOldest(r)
             IN  [base EXCEPT !.recent = d.cache,
                              !.recentEvict = LruSet(g, evictSize, d.key, Unit),
                              !.evicted = "recent", !.victim = d.key]
        ELSE IF freqLen = 0
        THEN [base EXCEPT !.panic = (onEmpty = "panic"), !.evicted = "empty"]
        ELSE [base EXCEPT !.frequent = LruDeleteOldest(f).cache,
                          !.evicted = "frequent",
                          !.victim = LruDeleteOldest(f).key]

\* the outcomes ensureSpace can have on the current stores
Outcomes(reentry) ==
    IF ensureSpace(recent, frequent, recentEvict, reentry, "noop").evicted = "empty"
    THEN {"panic", "noop"} ELSE {"noop"}

\* a re-admission that stores a fixed value in place of the one passed
ReadmitFixed(s, key, value) ==
    [recent |-> s.recent,
     recentEvict |-> LruDelete(s.recentEvict, key),
     frequent |-> LruSet(s.frequent, size, key, AnyVal)]

\* a re-admission that leaves the key in recentEvict
ReadmitKeepGhost(s, key, value) ==
    [recent |-> s.recent,
     recentEvict |-> s.recentEvict,
     frequent |-> LruSet(s.frequent, size, key, value)]

\* a key found in recentEvict goes to the frequently used list
Readmit(s, key, value) ==
    [recent |-> s.recent,
     recentEvict |-> LruDelete(s.recentEvict, key),
     frequent |-> LruSet(s.frequent, size, key, value)]

\* a new key goes to the recently seen list
Admit(s, key, value) ==
    [recent |-> LruSet(s.recent, size, key, value),
     recentEvict |-> s.recentEvict,
     frequent |-> s.frequent]

\* --------------------------------------------------------------------- Set
Set(key, value) ==
    /\ Usable
    /\ IF LruExist(frequent, key, now)
       THEN /\ frequent' = LruSet(frequent, size, key, value)
            /\ last' = Last("Set", key, "frequent", "none", NoKey, FALSE, value)
            /\ UNCHANGED <<recent, recentEvict, failed>>
       ELSE IF LruExist(recent, key, now)
       THEN /\ recent' = LruDelete(recent, key)
            /\ frequent' = LruSet(frequent, size, key, value)
            /\ last' = Last("Set", key, "recent", "none", NoKey, FALSE, value)
            /\ UNCHANGED <<recentEvict, failed>>
       ELSE IF LruExist(recentEvict, key, now)
       THEN \E onEmpty \in Outcomes(TRUE) :
              LET s == ensureSpace(recent, frequent, recentEvict, TRUE, onEmpty)
              IN  IF s.panic
                  THEN /\ failed' = TRUE
                       /\ last' = Last("Set", key, "panic", s.evicted, s.victim, FALSE, value)
                       /\ UNCHANGED <<recent, frequent, recentEvict>>
                  ELSE /\ recent' = Readmit(s, key, value).recent
                       /\ recentEvict' = Readmit(s, key, value).recentEvict
                       /\ frequent' = Readmit(s, key, value).frequent
                       /\ last' = Last("Set", key, "ghost", s.evicted, s.victim, FALSE, value)
                       /\ failed' = failed
       ELSE \E onEmpty \in Outcomes(FALSE) :
              LET s == ensureSpace(recent, frequent, recentEvict, FALSE, onEmpty)
              IN  IF s.panic
                  THEN /\ failed' = TRUE
                       /\ last' = Last("Set", key, "panic", s.evicted, s.victim, FALSE, value)
                       /\ UNCHANGED <<recent, frequent, recentEvict>>
                  ELSE /\ recent' = Admit(s, key, value).recent
                       /\ frequent' = Admit(s, key, value).frequent
                       /\ recentEvict' = Admit(s, key, value).recentEvict
                       /\ last' = Last("Set", key, "new", s.evicted, s.victim, FALSE, value)
                       /\ failed' = failed
    /\ script' = Follow(Call("Set", key, value))
    /\ UNCHANGED <<config, now, expiring>>

\* SetWithExpire that sends a key found in recentEvict to frequent, as Set does
SetWithExpireReadmit(key, value, expires) ==
    /\ Usable
    /\ IF LruExist(frequent, key, now)
       THEN /\ frequent' = LruSet(frequent, size, key, value)
            /\ recent' = recent
            /\ recentEvict' = recentEvict
            /\ last' = Last("SetWithExpire", key, "frequent", "none", NoKey, FALSE, value)
       ELSE IF LruExist(recentEvict, key, now)
       THEN /\ frequent' = LruSet(frequent, size, key, value)
            /\ recent' = recent
            /\ recentEvict' = LruDelete(recentEvict, key)
            /\ last' = Last("SetWithExpire", key, "ghost", "none", NoKey, FALSE, value)
       ELSE /\ recent' = LruSetWithExpire(recent, size, key, value, expires)
            /\ frequent' = frequent
            /\ recentEvict' = recentEvict
            /\ last' = Last("SetWithExpire", key, "recent", "none", NoKey, FALSE, value)
    /\ expiring' = TRUE
    /\ script' = OffScript
    /\ UNCHANGED <<config, now, failed>>

\* ----------------------------------------------------------- SetWithExpire
SetWithExpire(key, value, expires) ==
    /\ Usable
    /\ IF LruExist(frequent, key, now)
       THEN /\ frequent' = LruSet(frequent, size, key, value)
            /\ recent' = recent
            /\ last' = Last("SetWithExpire", key, "frequent", "none", NoKey, FALSE, value)
       ELSE /\ recent' = LruSetWithExpire(recent, size, key, value, expires)
            /\ frequent' = frequent
            /\ last' = Last("SetWithExpire", key, "recent", "none", NoKey, FALSE, value)
    /\ expiring' = TRUE
    /\ script' = OffScript
    /\ UNCHANGED <<config, recentEvict, now, failed>>

\* the store a key is held in, expired or not: frequent, else recent, else ghost
Where(key) ==
    IF Has(frequent, key) THEN "frequent"
    ELSE IF Has(recent, key) THEN "recent"
    ELSE IF Has(recentEvict, key) THEN "ghost"
    ELSE "miss"

\* ------------------------------------------------------------------ Delete
\* Delete that also drops the oldest entry of recent
DeleteEvicting(key) ==
    /\ Usable
    /\ frequent' = LruDelete(frequent, key)
    /\ recent' = (IF LruDelete(recent, key) = <<>> THEN <<>>
                  ELSE LruDeleteOldest(LruDelete(recent, key)).cache)
    /\ recentEvict' = LruDelete(recentEvict, key)
    /\ last' = Last("Delete", key, Where(key), "none", NoKey, FALSE, Empty)
    /\ script' = Follow(Call("Delete", key, Empty))
    /\ UNCHANGED <<config, now, failed, expiring>>

\* Delete that leaves the key in recentEvict
DeleteKeepGhost(key) ==
    /\ Usable
    /\ frequent' = LruDelete(frequent, key)
    /\ recent' = LruDelete(recent, key)
    /\ recentEvict' = recentEvict
    /\ last' = Last("Delete", key, Where(key), "none", NoKey, FALSE, Empty)
    /\ script' = Follow(Call("Delete", key, Empty))
    /\ UNCHANGED <<config, now, failed, expiring>>

Delete(key) ==
    /\ Usable
    /\ frequent' = LruDelete(frequent, key)
    /\ recent' = LruDelete(recent, key)
    /\ recentEvict' = LruDelete(recentEvict, key)
    /\ last' = Last("Delete", key, Where(key), "none", NoKey, FALSE, Empty)
    /\ script' = Follow(Call("Delete", key, Empty))
    /\ UNCHANGED <<config, now, failed, expiring>>

\* ------------------------------------------------------------------- Clear
\* what the stores hold when Clear is called: ghost keys, values, both, nothing
Held ==
    IF recentEvict # <<>>
    THEN (IF recent # <<>> \/ frequent # <<>> THEN "all" ELSE "ghost")
    ELSE (IF recent # <<>> \/ frequent # <<>> THEN "values" ELSE "none")

\* Clear that leaves recentEvict as it is
ClearKeepGhost ==
    /\ Usable
    /\ recent' = LruClear(recent)
    /\ frequent' = LruClear(frequent)
    /\ recentEvict' = recentEvict
    /\ last' = Last("Clear", NoKey, Held, "none", NoKey, FALSE, Empty)
    /\ script' = OffScript
    /\ UNCHANGED <<config, now, failed, expiring>>

Clear ==
    /\ Usable
    /\ recent' = LruClear(recent)
    /\ frequent' = LruClear(frequent)
    /\ recentEvict' = LruClear(recentEvict)
    /\ last' = Last("Clear", NoKey, Held, "none", NoKey, FALSE, Empty)
    /\ script' = OffScript
    /\ UNCHANGED <<config, now, failed, expiring>>

\* the clock advances by one second
Tick ==
    /\ Usable
    /\ now < MaxTime
    /\ now' = now + 1
    /\ last' = Last("Tick", NoKey, "none", "none", NoKey, FALSE, Empty)
    /\ script' = script
    /\ UNCHANGED <<config, recent, frequent, recentEvict, failed, expiring>>

\* ---------------------------------------------------------------- the lock
\* a thread calls a public operation and reaches its c.mu.Lock()
Invoke(t, op) ==
    /\ Usable
    /\ pc[t].at = "idle"
    /\ pc' = [pc EXCEPT ![t] = [at |-> "Lock", op |-> op]]
    /\ UNCHANGED <<cachevars, mu>>

\* a lock taken in shared mode: it does not wait for the holder
RLock(t) ==
    /\ pc[t].at = "Lock"
    /\ mu' = t
    /\ pc' = [pc EXCEPT ![t].at = "body"]
    /\ UNCHANGED cachevars

\* c.mu.Lock(): waits until no thread holds the lock
Lock(t) ==
    /\ pc[t].at = "Lock"
    /\ mu = Free
    /\ mu' = t
    /\ pc' = [pc EXCEPT ![t].at = "body"]
    /\ UNCHANGED cachevars

\* the calls of one operation, over the keys and expiry instants
Run(op) ==
    \/ op = "Get" /\ \E k \in Keys : Get(k)
    \/ op = "Set" /\ \E k \in Keys : Set(k, AnyVal)
    \/ op = "SetWithExpire" /\ \E k \in Keys, e \in Times : SetWithExpire(k, AnyVal, e)
    \/ op = "Delete" /\ \E k \in Keys : Delete(k)
    \/ op = "Clear" /\ Clear

\* the body of the operation, up to its return (or its panic)
Body(t) ==
    /\ pc[t].at = "body"
    /\ Run(pc[t].op)
    /\ pc' = [pc EXCEPT ![t].at = "Unlock"]
    /\ mu' = mu

\* defer c.mu.Unlock(): runs when the body returns or panics
Unlock(t) ==
    /\ pc[t].at = "Unlock"
    /\ mu' = Free
    /\ pc' = [pc EXCEPT ![t] = At0]
    /\ UNCHANGED cachevars

\* -------------------------------------------------------------- membership
InRecent(k) == LruExist(recent, k, now)

InFrequent(k) == LruExist(frequent, k, now)

InGhost(k) == LruExist(recentEvict, k, now)

\* |recent| + |frequent|, as ensureSpace counts it
Total == LruLen(recent) + LruLen(frequent)

\* ---------------------------------------------------------- specifications
\* a call made while no other call is in progress: it takes the lock, runs and
\* releases the lock in one step
Alone == mu = Free /\ UNCHANGED <<mu, pc>>

\* every public operation, with the clock
Next ==
    \/ \E k \in Keys : Get(k) /\ Alone
    \/ \E k \in Keys, v \in Vals : Set(k, v) /\ Alone
    \/ \E k \in Keys, v \in Vals, e \in Times : SetWithExpire(k, v, e) /\ Alone
    \/ \E k \in Keys : Delete(k) /\ Alone
    \/ Clear /\ Alone
    \/ Tick /\ Alone

Spec == Init /\ [][Next]_vars

\* every public operation, with the clock, all calls storing the same value
NextKeys ==
    \/ \E k \in Keys : Get(k) /\ Alone
    \/ \E k \in Keys : Set(k, AnyVal) /\ Alone
    \/ \E k \in Keys, e \in Times : SetWithExpire(k, AnyVal, e) /\ Alone
    \/ \E k \in Keys : Delete(k) /\ Alone
    \/ Clear /\ Alone
    \/ Tick /\ Alone

SpecKeys == Init /\ [][NextKeys]_vars

\* The operations that set no expiry, on the small caches and on the cache
\* of TestTwoQCache (New(size)), which is called with the test's keys and values.
InitPlain ==
    \/ Init
    \/ Construct(TestSize, Default2QRecentRatio, Default2QGhostEntries)

KeysOf == IF size = TestSize THEN TestKeys ELSE Keys

ValsOf(k) == IF size = TestSize THEN {TestValue(k)} ELSE Vals

NextPlain ==
    \/ \E k \in KeysOf : Get(k) /\ Alone
    \/ \E k \in KeysOf : \E v \in ValsOf(k) : Set(k, v) /\ Alone
    \/ \E k \in KeysOf : Delete(k) /\ Alone
    \/ Clear /\ Alone

SpecPlain == InitPlain /\ [][NextPlain]_vars

\* The public operations called from several threads, on the caches New builds.
InitLock == \E s \in SizeArgs : Construct(s, Default2QRecentRatio, Default2QGhostEntries)

NextLock ==
    \/ \E t \in Threads, op \in Ops : Invoke(t, op)
    \/ \E t \in Threads : Lock(t)
    \/ \E t \in Threads : Body(t)
    \/ \E t \in Threads : Unlock(t)
    \/ Tick /\ UNCHANGED <<mu, pc>>

SpecLock == InitLock /\ [][NextLock]_vars

\* Set calls only
NextSet == \E k \in Keys, v \in Vals : Set(k, v) /\ Alone

SpecSet == Init /\ [][NextSet]_vars

\* ------------------------------------------------------------------ claims

\* C1: for every cache that construction accepts and every sequence of Set
\* calls, after each call |recent| + |frequent| <= capacity.
C1_CapacityUnderSet == (inst = "ok" /\ args[2][1] > 0) => Total <= size

\* C2: under all operations |recent| + |frequent| <= capacity; in particular
\* a SetWithExpire of a key that is in neither recent nor frequent while
\* |recent| + |frequent| = capacity does not leave the total above capacity.
C2_CapacityAllOps ==
    [][\A k \in KeysOf :
          (last'.op = "SetWithExpire" /\ last'.key = k
             /\ ~InRecent(k) /\ ~InFrequent(k) /\ Total = size)
          => Total' <= size]_vars

C4_GhostExclusiveAllOps ==
    \A k \in KeysOf : InGhost(k) => ~InRecent(k) /\ ~InFrequent(k)

\* C4 amended: as long as SetWithExpire has not been called, a key that is in
\* ghost is in neither recent nor frequent; and under all operations a key
\* enters ghost only when the ensureSpace of a Set evicts it from recent.
C4_GhostExclusive ==
    /\ [](~expiring => \A k \in KeysOf : InGhost(k) => ~InRecent(k) /\ ~InFrequent(k))
    /\ [][\A k \in KeysOf :
            (~InGhost(k) /\ InGhost(k)')
            => /\ last'.op = "Set" /\ last'.evict = "recent"
               /\ recent # <<>> /\ Head(recent).key = k]_vars

\* C4 witness: with no SetWithExpire so far, a Set has re-admitted a ghost key
\* to frequent and another key is in ghost.
C4_Witness ==
    /\ ~expiring
    /\ last.op = "Set" /\ last.path = "ghost"
    /\ InFrequent(last.key) /\ ~InGhost(last.key)
    /\ \E k \in KeysOf : InGhost(k)

\* C5: if key K is in recent (unexpired), Get(K) returns (value, true) and
\* Set(K, v) stores v, and after either call K is in frequent and not in
\* recent, |recent| + |frequent| is unchanged, no other key is evicted, and
\* ghost is unchanged.
C5_PromotionOnRepeat ==
    [][\A k \in KeysOf :
          (InRecent(k) /\ last'.key = k /\ last'.op \in {"Get", "Set"})
          => /\ InFrequent(k)' /\ ~InRecent(k)'
             /\ Total' = Total
             /\ \A j \in KeysOf \ {k} :
                    /\ InRecent(j) => InRecent(j)'
                    /\ InFrequent(j) => InFrequent(j)'
             /\ recentEvict' = recentEvict
             /\ last'.op = "Get"
                    => last'.found /\ last'.val = At(recent, k).value
             /\ \A v \in Vals : Set(k, v) => At(frequent', k).value = v]_vars

\* C6: once K is in frequent, a step in which K stops being in frequent is
\* Delete(K), Clear(), or a Set whose ensureSpace evicted frequent's
\* least-recently-touched entry; no Get and no SetWithExpire removes K from
\* frequent, and K never moves back into recent.
C6_FrequentSticky ==
    [][\A k \in KeysOf :
          InFrequent(k)
          => /\ ~InRecent(k)'
             /\ ~InFrequent(k)'
                  => \/ last'.op = "Delete" /\ last'.key = k
                     \/ last'.op = "Clear"
                     \/ /\ last'.op = "Set" /\ last'.evict = "frequent"
                        /\ last'.victim = k /\ Head(frequent).key = k]_vars

\* the entries of recent apart from its oldest, followed by an entry of key k
ColdInsert(k) ==
    \E v \in Vals \cup {TestValue(k)} : recent' = Append(Tail(recent), Entry(k, v, NoExpire))

\* a Set of key k that is in none of the three stores, on a full cache whose
\* recent store is above its target
ColdSet(k) ==
    /\ last'.op = "Set" /\ last'.key = k
    /\ Total = size /\ LruLen(recent) > recentSize
    /\ ~InRecent(k) /\ ~InFrequent(k) /\ ~InGhost(k)

\* the last call was a Set that evicted from recent and the step is a Get of
\* the evicted key
GetOfVictim ==
    /\ last'.op = "Get" /\ last.op = "Set" /\ last.evict = "recent"
    /\ last'.key = last.victim

\* TestTwoQCache up to Set("6"): Get("3") misses and Get("2") hits
TestColdEviction ==
    /\ script = NumEntries + 6 => ~last.found
    /\ script = NumEntries + 7 => last.found /\ last.val = TestValue(2)

C10_DeleteComplete ==
    [][\A k \in KeysOf :
          /\ (last'.op = "Delete" /\ last'.key = k)
               => ~Has(recent', k) /\ ~Has(frequent', k) /\ ~Has(recentEvict', k)
          /\ (last.op = "Delete" /\ last.key = k /\ last'.op = "Get" /\ last'.key = k)
               => ~last'.found /\ last'.path = "miss"
          /\ (last.op = "Delete" /\ last.key = k /\ last'.op = "Set" /\ last'.key = k)
               => /\ last'.path = "new"
                  /\ InRecent(k)' /\ ~InFrequent(k)' /\ ~InGhost(k)']_vars

\* C10 witness: after SetWithExpire calls, Delete has removed a key that was
\* in ghost and in recent, and the other stores still hold keys.
C10_Witness ==
    /\ expiring
    /\ last.op = "Delete" /\ last.path = "recent"
    /\ ~Has(recent, last.key) /\ ~Has(frequent, last.key) /\ ~Has(recentEvict, last.key)
    /\ recentEvict # <<>> /\ frequent # <<>>

\* the entries of a store that its reads can see: those not expired
Live(c) == SelectSeq(c, LAMBDA e : ~Expired(e, now))

\* C11: Delete(K) on a key that is in none of recent, frequent and ghost
\* leaves the membership, values and recency order of all three stores
\* unchanged and does not fail; a second Delete(K) right after a Delete(K)
\* changes nothing.
C11_IdempotentDelete ==
    [][\A k \in KeysOf :
          (last'.op = "Delete" /\ last'.key = k)
          => /\ failed' = failed
             /\ (~InRecent(k) /\ ~InFrequent(k) /\ ~InGhost(k))
                  => /\ Live(recent)' = Live(recent)
                     /\ Live(frequent)' = Live(frequent)
                     /\ Live(recentEvict)' = Live(recentEvict)
             /\ (~Has(recent, k) /\ ~Has(frequent, k) /\ ~Has(recentEvict, k))
                  => UNCHANGED <<recent, frequent, recentEvict>>
             /\ (last.op = "Delete" /\ last.key = k)
                  => UNCHANGED <<recent, frequent, recentEvict>>]_vars

\* C11 witness: Delete was called on a key held by none of the stores while
\* each of the three stores holds an entry.
C11_Witness ==
    /\ last.op = "Delete" /\ last.path = "miss"
    /\ recent # <<>> /\ frequent # <<>> /\ recentEvict # <<>>

\* C12: after Clear() the recent, frequent and ghost stores are all empty;
\* a Get that follows returns found = false for every key, and a Set that
\* follows puts its key, ghosted before or not, into recent and not into
\* frequent.
C12_ClearTotality ==
    [][/\ last'.op = "Clear"
            => recent' = <<>> /\ frequent' = <<>> /\ recentEvict' = <<>>
       /\ (last.op = "Clear" /\ last'.op = "Get")
            => ~last'.found /\ last'.val = Empty
       /\ \A k \in KeysOf :
            (last.op = "Clear" /\ last'.op = "Set" /\ last'.key = k)
            => /\ last'.path = "new"
               /\ InRecent(k)' /\ ~InFrequent(k)' /\ ~InGhost(k)']_vars

\* C12 witness: Clear has emptied a cache that held ghost keys and values.
C12_Witness ==
    /\ last.op = "Clear" /\ last.path = "all"
    /\ recent = <<>> /\ frequent = <<>> /\ recentEvict = <<>>

\* key k has an entry in recent that carries an expiry
ExpiringInRecent(k) == Has(recent, k) /\ At(recent, k).expires # NoExpire

\* C13: an entry that SetWithExpire put into recent and that was not promoted
\* before its expiry passed is not found by Get afterwards; a Get or Set of
\* the key before the expiry promotes it to frequent, where entries carry no
\* expiry, so every Get of a key held in frequent returns found = true.
C13_LazyExpiry ==
    /\ [](\A i \in 1..Len(frequent) : frequent[i].expires = NoExpire)
    /\ [][\A k \in KeysOf :
            /\ (last'.op = "Get" /\ last'.key = k)
                 => /\ (~Has(frequent, k) /\ ExpiringInRecent(k)
                          /\ Expired(At(recent, k), now))
                         => ~last'.found /\ last'.path = "miss"
                    /\ (~Has(frequent, k) /\ ExpiringInRecent(k)
                          /\ ~Expired(At(recent, k), now))
                         => /\ last'.found /\ last'.val = At(recent, k).value
                            /\ Has(frequent', k) /\ ~Has(recent', k)
                    /\ Has(frequent, k)
                         => last'.found /\ last'.val = At(frequent, k).value
                    /\ last'.found
                         => Has(frequent, k)
                              \/ (Has(recent, k) /\ ~Expired(At(recent, k), now))
            /\ (last'.op = "Set" /\ last'.key = k /\ ~Has(frequent, k)
                  /\ ExpiringInRecent(k) /\ ~Expired(At(recent, k), now))
                 => /\ Has(frequent', k) /\ ~Has(recent', k)
                    /\ At(frequent', k).expires = NoExpire]_vars

\* C13 witness: Get missed a key whose entry is still stored in recent with
\* its expiry passed, while frequent holds another key.
C13_Witness ==
    /\ last.op = "Get" /\ ~last.found
    /\ ExpiringInRecent(last.key) /\ Expired(At(recent, last.key), now)
    /\ ~Has(frequent, last.key) /\ frequent # <<>>

\* the thread is between its lock acquisition and its release
InSection(t) == pc[t].at \in {"body", "Unlock"}

\* the three stores
stores == <<recent, frequent, recentEvict>>

\* C14: with the operations called from several threads, at most one thread
\* is between its Lock and its Unlock at any time and it is the holder of the
\* lock; the stores change only in the body of the holder's operation; and
\* every change of the cache is one whole call of a public operation applied
\* to the state the previous one left, so the states reached are those of
\* the calls run one after the other.
C14_Linearizable ==
    /\ [](\A t, u \in Threads : (InSection(t) /\ InSection(u)) => t = u)
    /\ [](\A t \in Threads : InSection(t) = (mu = t))
    /\ [][stores' # stores
            => \E t \in Threads :
                 /\ mu = t /\ pc[t].at = "body" /\ pc'[t].at = "Unlock"
                 /\ last'.op = pc[t].op]_vars
    /\ [][\/ last'.op \in Ops /\ Run(last'.op)
          \/ last'.op = "Tick" /\ Tick]_cachevars

\* C14 witness: a thread is still in its critical section after its Set
\* evicted from recent, while another thread waits at Lock for a Get.
C14_Witness ==
    \E t, u \in Threads :
      /\ t # u
      /\ pc[t].at = "Unlock" /\ mu = t
      /\ pc[u] = [at |-> "Lock", op |-> "Get"]
      /\ last.op = "Set" /\ last.evict = "recent"

\* the ratio is a number of [0, 1]
InUnit(ratio) == 0 <= ratio[1] /\ ratio[1] <= ratio[2]

\* n = floor(s * ratio)
IsFloor(n, s, ratio) == n * ratio[2] <= s * ratio[1] /\ s * ratio[1] < (n + 1) * ratio[2]

\* what New2QParams(size, recentRatio, ghostRatio) returned: no instance when
\* size <= 0 or a ratio is outside [0, 1], otherwise a cache with
\* recentSize = floor(size * recentRatio), a ghost capacity of
\* floor(size * ghostRatio) and, before any call, three empty stores
Validated ==
    IF args[1] <= 0 \/ ~InUnit(args[2]) \/ ~InUnit(args[3])
    THEN inst = "nil"
    ELSE /\ inst = "ok" /\ size = args[1]
         /\ IsFloor(recentSize, args[1], args[2])
         /\ IsFloor(evictSize, args[1], args[3])
         /\ last.op = "New" => recent = <<>> /\ frequent = <<>> /\ recentEvict = <<>>

\* C15 as claimed: New2QParams validates its arguments as above, and every
\* cache it returns has 0 < recentRatio <= 1 and 0 <= ghostRatio <= 1.
C15_ConstructionAsClaimed ==
    /\ Validated
    /\ inst = "ok" => 0 < args[2][1] /\ InUnit(args[2]) /\ InUnit(args[3])

\* C15 amended: New2QParams validates its arguments as above, and every
\* cache it returns has 0 <= recentRatio <= 1 and 0 <= ghostRatio <= 1 (a
\* recentRatio of 0 is accepted).
C15_Construction ==
    /\ Validated
    /\ inst = "ok" => InUnit(args[2]) /\ InUnit(args[3])

\* C15 witness: New2QParams has just returned a cache for a recentRatio of 0
\* and a ghostRatio of 1.
C15_Witness ==
    /\ inst = "ok" /\ last.op = "New"
    /\ args[2][1] = 0 /\ args[3][1] = args[3][2]
    /\ recentSize = 0 /\ evictSize = size

\* C16: Get(K) on a key that is in neither recent nor frequent returns
\* found = false and leaves recent, frequent and ghost as they are: K is not
\* inserted into ghost, and a K that is in ghost stays there.
C16_MissNotRemembered ==
    [][\A k \in KeysOf :
          (last'.op = "Get" /\ last'.key = k /\ ~InRecent(k) /\ ~InFrequent(k))
          => /\ ~last'.found /\ last'.val = Empty /\ last'.path = "miss"
             /\ recent' = recent /\ frequent' = frequent
             /\ recentEvict' = recentEvict
             /\ InGhost(k)' = InGhost(k)]_vars

\* C16 witness: Get missed a key that is in ghost, with entries in recent and
\* in frequent.
C16_Witness ==
    /\ last.op = "Get" /\ last.path = "miss" /\ ~last.found
    /\ InGhost(last.key)
    /\ recent # <<>> /\ frequent # <<>>

\* C17: whenever a Set calls ensureSpace with |recent| + |frequent| =
\* capacity, the store ensureSpace evicts from is non-empty and exactly one
\* entry is removed (so the total is the capacity again once the key is
\* inserted); DeleteOldest is never called on an empty frequent store and no
\* Set call fails.
C17_EnsureSpaceFrees ==
    /\ [][(last'.op = "Set" /\ last'.path \in {"ghost", "new", "panic"} /\ Total = size)
            => /\ last'.evict \in {"recent", "frequent"}
               /\ last'.path # "panic"
               /\ Total' = size]_vars
    /\ [](~failed /\ last.evict # "empty")

\* key k is in neither value store, so that Set(k) calls ensureSpace
Uncached(k) == ~InRecent(k) /\ ~InFrequent(k)

\* no key leaves recent or frequent in the step
NothingEvicted ==
    \A j \in KeysOf : /\ InRecent(j) => (InRecent(j)' \/ InFrequent(j)')
                      /\ InFrequent(j) => InFrequent(j)'

\* C18: when |recent| + |frequent| = capacity and |recent| = recentSize > 0,
\* a Set of a brand-new key evicts the oldest entry of recent and inserts its
\* key into ghost (which keeps it if its capacity is at least one), whereas a Set of a key found in ghost evicts the oldest
\* entry of frequent, which does not go to ghost, and leaves recent unchanged;
\* when |recent| < recentSize or recent is empty the eviction is from
\* frequent; and when |recent| + |frequent| < capacity nothing is evicted.
C18_TieBreak ==
    [][\A k \in KeysOf :
          (last'.op = "Set" /\ last'.key = k /\ Uncached(k))
          => /\ (Total = size /\ LruLen(recent) = recentSize /\ recentSize > 0
                   /\ ~InGhost(k))
                  => \A old \in {Head(recent).key} :
                       /\ last'.evict = "recent" /\ last'.victim = old
                       /\ ~InRecent(old)' /\ InGhost(old)' = (evictSize >= 1)
             /\ (Total = size /\ LruLen(recent) = recentSize /\ recentSize > 0
                   /\ InGhost(k))
                  => /\ last'.evict = "frequent"
                     /\ frequent # <<>>
                     /\ \A old \in {Head(frequent).key} :
                          /\ last'.victim = old
                          /\ ~InFrequent(old)' /\ ~InGhost(old)'
                     /\ recent' = recent
             /\ (Total = size /\ (LruLen(recent) < recentSize \/ LruLen(recent) = 0))
                  => /\ last'.evict = "frequent"
                     /\ frequent # <<>> /\ last'.victim = Head(frequent).key
             /\ Total < size
                  => last'.evict = "none" /\ NothingEvicted]_vars

\* C19: SetWithExpire(K, v, t) on a key K that is not in frequent stores K
\* in recent with value v and expiry t and leaves frequent and ghost as they
\* are, also when K is in ghost (K stays there and is not promoted) and when
\* K is already in recent (K is updated there and not promoted); on a key
\* that is in frequent it writes v to K's entry of frequent with no expiry
\* and leaves the other entries of frequent, recent and ghost as they are.
C19_ExpireAsymmetry ==
    [][\A k \in KeysOf : \A e \in Times :
          (last'.op = "SetWithExpire" /\ last'.key = k /\ SetWithExpire(k, AnyVal, e))
          => /\ ~InFrequent(k)
                  => /\ Has(recent', k)
                     /\ At(recent', k) = Entry(k, AnyVal, e)
                     /\ frequent' = frequent /\ ~Has(frequent', k)
                     /\ recentEvict' = recentEvict
             /\ InFrequent(k)
                  => /\ At(frequent', k) = Entry(k, AnyVal, NoExpire)
                     /\ Remove(frequent', k) = Remove(frequent, k)
                     /\ recent' = recent
                     /\ recentEvict' = recentEvict]_vars

\* C19 witness: SetWithExpire has put into recent, with an expiry, a key that
\* is and stays in ghost, while frequent holds another key.
C19_Witness ==
    /\ last.op = "SetWithExpire" /\ last.path = "recent"
    /\ InGhost(last.key) /\ ExpiringInRecent(last.key)
    /\ ~Has(frequent, last.key) /\ frequent # <<>>

\* the value Get(k) returns in the current state, Empty when it misses
Current(k) ==
    IF InFrequent(k) THEN At(frequent, k).value
    ELSE IF InRecent(k) THEN At(recent, k).value
    ELSE Empty

\* C20: whenever Get(K) returns found = true its value is the one of the
\* most recent Set(K, .) or SetWithExpire(K, ., .), and never one written
\* before the last Delete(K) or Clear().  Step by step: Get(K) returns the
\* value the cache holds for K and does not change it; a write of v to K
\* makes v the value held (or none); Delete(K) and Clear leave none; and no
\* other step changes the value held for K, except by dropping it.
C20_ValueFreshness ==
    [][\A k \in Keys :
          /\ (last'.op = "Get" /\ last'.key = k)
               => /\ last'.found = (Current(k) # Empty)
                  /\ last'.val = Current(k)
                  /\ Current(k)' = Current(k)
          /\ (last'.op \in {"Set", "SetWithExpire"} /\ last'.key = k)
               => last'.val \in Vals /\ Current(k)' \in {last'.val, Empty}
          /\ ((last'.op = "Delete" /\ last'.key = k) \/ last'.op = "Clear")
               => Current(k)' = Empty
          /\ ~(last'.op \in {"Set", "SetWithExpire"} /\ last'.key = k)
               => Current(k)' \in {Current(k), Empty}]_vars

\* C20 witness: Get has returned the newest value of a key of frequent that
\* was written more than once, its older entry still stored in recent.
C20_Witness ==
    /\ last.op = "Get" /\ last.found /\ last.path = "frequent"
    /\ last.val = NumVals /\ Current(last.key) = NumVals
    /\ Has(recent, last.key) /\ At(recent, last.key).value # NumVals

====
